---- MODULE Spec2Model ----
\* Model of the Atlassian IP whitelist updater (src/postfix/ip_updater.py):
\* the reconciliation update_ips, the operations it calls, and the run loop.
EXTENDS Integers, Sequences, FiniteSets, TLC

VARIABLES
    pc,               \* position of run(): "start", "loop" or "exited"
    now,              \* time.time(), whole seconds
    cfg,              \* __init__: check_interval, metric_interval, datadog_api_key
    last_ip_check,    \* run(): local last_ip_check
    last_metric_time, \* self.last_metric_time
    stateFile,        \* /tmp/atlassian_state.json
    cidrFile,         \* /etc/postfix/clients.cidr
    backups,          \* the files clients.cidr.backup.<ts>
    op,               \* what the last step of run() did
    cycle,            \* observation of the most recent update_ips call
    doc,              \* input of extract_email_ips (SpecExtract)
    extracted,        \* its result (SpecExtract)
    last_reload,      \* result of the most recent reload_postfix call
    health            \* a GET on the health-check server and its response

vars == <<pc, now, cfg, last_ip_check, last_metric_time, stateFile, cidrFile,
          backups, op, cycle, doc, extracted, last_reload, health>>

-----------------------------------------------------------------------------
\* Bounds of the model.

\* time.time() when the process starts; larger than every interval, as a Unix
\* time is.
StartTime == 100
\* The clock value at which the loop is no longer followed.
MaxTime == 130
\* Feed documents of the extraction specification have at most this many items.
MaxItems == 2
\* CIDR strings are coded 1..MaxCidr in their lexicographic order; 0 is the
\* empty (or missing) CIDR.
MaxCidr == 2

\* The age, in seconds, from which the stored times of the run loop are no
\* longer told apart (SpecLive). Every interval of Intervals is below it.
MaxAge == 120

\* time.sleep(30) of the main loop.
SleepSeconds == 30

-----------------------------------------------------------------------------
\* Python dicts with string keys: functions on a finite set of keys.

EmptyDict == [k \in {} |-> 0]

get(d, k, default) == IF k \in DOMAIN d THEN d[k] ELSE default

put(d, k, v) == [j \in DOMAIN d \cup {k} |-> IF j = k THEN v ELSE d[j]]

\* The value None where a content hash is expected.
NoHash == <<>>

\* hashlib.md5(content.encode()).hexdigest(): a digest that is never empty
\* and is determined by the content.
md5(content) == <<"md5", content>>

-----------------------------------------------------------------------------
\* Feed documents.

ProductTags == {"email", "jira"}
DirectionTags == {"egress", "ingress"}
Cidrs == 0..MaxCidr

\* An entry of data['items'] that is a JSON object; an absent key reads as
\* the default of item.get: [] for the tag lists, None for the CIDR.
Item(p, d, c) == [shape |-> "object", product |-> p, direction |-> d, cidr |-> c]

\* An entry that is not a JSON object (a number, a string): item.get raises.
ScalarItem == [shape |-> "scalar", product |-> {}, direction |-> {}, cidr |-> 0]

ObjectItems == {Item(p, d, c) : p \in SUBSET ProductTags, d \in SUBSET DirectionTags, c \in Cidrs}

\* The response bodies the feed serves in the model.
Body(text, json_ok, has_items, items) ==
    [text |-> text, json_ok |-> json_ok, has_items |-> has_items, items |-> items]

BodyTwo == Body("two", TRUE, TRUE,
    <<Item({"email"}, {"egress"}, 2), Item({"email"}, {"egress", "ingress"}, 1)>>)
BodyOne == Body("one", TRUE, TRUE,
    <<Item({"email"}, {"egress"}, 1), Item({"jira"}, {"egress"}, 2)>>)
BodyNoEmail == Body("noemail", TRUE, TRUE, <<Item({"jira"}, {"egress"}, 2)>>)
BodyNotJson == Body("notjson", FALSE, FALSE, <<>>)
BodyNoItems == Body("noitems", TRUE, FALSE, <<>>)
BodyScalar == Body("scalar", TRUE, TRUE, <<ScalarItem>>)

Bodies == {BodyTwo, BodyOne, BodyNoEmail, BodyNotJson, BodyNoItems, BodyScalar}

\* What requests.get and raise_for_status give: an exception, or a body.
Response(kind, body) == [kind |-> kind, body |-> body]

Responses == {Response("timeout", BodyNotJson), Response("http_error", BodyNotJson)}
             \cup {Response("ok", b) : b \in Bodies}

\* The return value of fetch_atlassian_data: None, or the parsed document
\* with its '_content_hash'.
NoData == [none |-> TRUE, items |-> <<>>, _content_hash |-> NoHash]

\* fetch_atlassian_data without the comparison with last_hash.
fetch_atlassian_data_nocompare(last_hash, resp) ==
    IF resp.kind # "ok" THEN NoData
    ELSE IF ~resp.body.json_ok THEN NoData
    ELSE IF ~resp.body.has_items THEN NoData
    ELSE [none |-> FALSE, items |-> resp.body.items,
          _content_hash |-> md5(resp.body.text)]

\* resp: what the GET gives. Every exception of the try block returns None.
fetch_atlassian_data(last_hash, resp) ==
    IF resp.kind # "ok" THEN NoData
    ELSE LET current_hash == md5(resp.body.text)
         IN  IF last_hash # NoHash /\ current_hash = last_hash THEN NoData
             ELSE IF ~resp.body.json_ok THEN NoData
             ELSE IF ~resp.body.has_items THEN NoData
             ELSE [none |-> FALSE, items |-> resp.body.items,
                   _content_hash |-> current_hash]

\* What the fetch of resp is, given the stored hash: decided by the response,
\* not by the value fetch_atlassian_data returns.
FetchClass(last_hash, resp) ==
    IF resp.kind # "ok" THEN "error"
    ELSE IF last_hash # NoHash /\ md5(resp.body.text) = last_hash THEN "no change"
    ELSE IF ~resp.body.json_ok \/ ~resp.body.has_items THEN "error"
    ELSE "changed"

-----------------------------------------------------------------------------
\* extract_email_ips

\* The condition of the if statement, for an entry that is an object.
IsEmailEgress(item) ==
    /\ "email" \in item.product
    /\ "egress" \in item.direction
    /\ item.cidr # 0

RECURSIVE Insert(_, _)
Insert(x, s) ==
    IF s = <<>> THEN <<x>>
    ELSE IF x < Head(s) THEN <<x>> \o s
    ELSE <<Head(s)>> \o Insert(x, Tail(s))

\* sorted(l)
RECURSIVE sorted(_)
sorted(l) == IF l = <<>> THEN <<>> ELSE Insert(Head(l), sorted(Tail(l)))

RECURSIVE AppendMatching(_)
AppendMatching(items) ==
    IF items = <<>> THEN <<>>
    ELSE IF IsEmailEgress(Head(items))
         THEN <<Head(items).cidr>> \o AppendMatching(Tail(items))
         ELSE AppendMatching(Tail(items))

\* item.get on an entry that is not an object raises AttributeError.
extract_raises(data) == \E i \in 1..Len(data.items) : data.items[i].shape # "object"

\* extract_email_ips returning email_ips as collected, not sorted.
extract_email_ips_unsorted(data) == AppendMatching(data.items)

extract_email_ips(data) == sorted(AppendMatching(data.items))

-----------------------------------------------------------------------------
\* The files.

\* The state file: absent, unreadable as JSON ("corrupt"), or a JSON object.
StateFile(status, json) == [status |-> status, json |-> json]
AbsentState == StateFile("absent", EmptyDict)

\* The whitelist file: its lines, when it exists.
CidrFile(exists, lines) == [exists |-> exists, lines |-> lines]
AbsentCidr == CidrFile(FALSE, <<>>)

Line(k, v) == [k |-> k, v |-> v]

\* A whitelist file that is in place before the updater first writes one.
InstalledCidr == CidrFile(TRUE, <<Line("ok", MaxCidr)>>)

\* The number of '<cidr> OK' lines of a whitelist file.
OkLines(f) == Cardinality({i \in 1..Len(f.lines) : f.lines[i].k = "ok"})

load_state(sf) == IF sf.status = "ok" THEN sf.json ELSE EmptyDict

\* sv: what the filesystem does on open(..., 'w') and json.dump.
SaveOutcomes == {"ok", "open_fails", "write_fails"}

save_state(sf, state, sv) ==
    IF sv = "ok" THEN StateFile("ok", state)
    ELSE IF sv = "open_fails" THEN sf
    ELSE StateFile("corrupt", EmptyDict)

\* The lines update_cidr_file joins with '\n'.
content_lines(ip_ranges, t) ==
    <<Line("generated", t), Line("source", 0), Line("total", Len(ip_ranges)), Line("blank", 0)>>
    \o [i \in 1..Len(ip_ranges) |-> Line("ok", ip_ranges[i])]
    \o <<Line("blank", 0)>>

\* wr: what the filesystem does during update_cidr_file: "cp_fails" (the
\* backup copy exits non-zero), "open_fails" (makedirs or open raises),
\* "write_fails" (the file is opened, hence truncated, and the write raises).
\* cp can only fail when it is run.
WriteOutcomes(cf) ==
    {"ok", "open_fails", "write_fails"} \cup (IF cf.exists THEN {"cp_fails"} ELSE {})

Backup(ts, lines) == [ts |-> ts, lines |-> lines]

\* cp cidr_file_path backup_path: the file at backup_path is created or
\* overwritten.
cp(bk, cf, ts) == {b \in bk : b.ts # ts} \cup {Backup(ts, cf.lines)}

\* update_cidr_file without the backup copy.
update_cidr_file_no_backup(cf, bk, ip_ranges, t, wr) ==
    IF wr = "ok" THEN [ret |-> TRUE, cidrFile |-> CidrFile(TRUE, content_lines(ip_ranges, t)), backups |-> bk]
    ELSE [ret |-> FALSE, cidrFile |-> cf, backups |-> bk]

\* The copy is made before anything else; a failed write leaves the opened
\* file empty.
update_cidr_file(cf, bk, ip_ranges, t, wr) ==
    IF cf.exists /\ wr = "cp_fails"
    THEN [ret |-> FALSE, cidrFile |-> cf, backups |-> bk]
    ELSE LET bk1 == IF cf.exists THEN cp(bk, cf, t) ELSE bk
         IN  IF wr = "open_fails"
             THEN [ret |-> FALSE, cidrFile |-> cf, backups |-> bk1]
             ELSE IF wr = "write_fails"
             THEN [ret |-> FALSE, cidrFile |-> CidrFile(TRUE, <<>>), backups |-> bk1]
             ELSE [ret |-> TRUE, cidrFile |-> CidrFile(TRUE, content_lines(ip_ranges, t)),
                   backups |-> bk1]

-----------------------------------------------------------------------------
\* reload_postfix

\* What a subprocess.run of postfix gives: exit code 0, a non-zero exit code,
\* or an exception (timeout, no such executable).
RunOutcomes == {"zero", "nonzero", "raises"}

Mta(status, start, reload) == [status |-> status, start |-> start, reload |-> reload]

Reloaded(ret, calls) == [ret |-> ret, calls |-> calls]

\* reload_postfix going on to reload after a start that exits non-zero.
reload_postfix_always_reloads(mta) ==
    IF mta.status = "raises" THEN Reloaded(FALSE, <<"status">>)
    ELSE IF mta.status = "nonzero"
    THEN IF mta.start = "raises" THEN Reloaded(FALSE, <<"status", "start">>)
         ELSE Reloaded(mta.reload = "zero", <<"status", "start", "reload">>)
    ELSE Reloaded(mta.reload = "zero", <<"status", "reload">>)

reload_postfix(mta) ==
    IF mta.status = "raises" THEN Reloaded(FALSE, <<"status">>)
    ELSE IF mta.status = "nonzero"
    THEN IF mta.start = "raises" THEN Reloaded(FALSE, <<"status", "start">>)
         ELSE IF mta.start = "nonzero" THEN Reloaded(FALSE, <<"status", "start">>)
         ELSE Reloaded(mta.reload = "zero", <<"status", "start", "reload">>)
    ELSE Reloaded(mta.reload = "zero", <<"status", "reload">>)

-----------------------------------------------------------------------------
\* The monitoring backend.

\* dd: whether the POSTs of one call of update_ips or send_health_metrics
\* succeed.
PostOutcomes == {"ok", "fails"}

\* The POSTs a call makes: none without an API key.
send_datadog_event(key, dd, title, alert_type) ==
    IF ~key THEN <<>>
    ELSE <<[title |-> title, alert_type |-> alert_type, delivered |-> dd = "ok"]>>

send_datadog_metric(key, dd, metric_name, value) ==
    IF ~key THEN <<>>
    ELSE <<[metric |-> metric_name, value |-> value, delivered |-> dd = "ok"]>>

Event(title, alert_type) == [title |-> title, alert_type |-> alert_type]
Gauge(metric_name, value) == [metric |-> metric_name, value |-> value]

-----------------------------------------------------------------------------
\* update_ips

\* e: what the environment does during one call: the feed's response (resp),
\* the filesystem on the whitelist write (wr) and on the state write (sv), the
\* postfix commands (mta), the monitoring backend (dd).
Env(resp, wr, mta, sv, dd) == [resp |-> resp, wr |-> wr, mta |-> mta, sv |-> sv, dd |-> dd]

\* What one call of update_ips does: whether it raised, its return value, the
\* files after it, the postfix subcommands it ran (calls), the events and
\* gauges it handed to send_datadog_event and send_datadog_metric (notified,
\* gauges) and the POSTs made for them (events, metrics).
Outcome(path, raised, ret, sf, cf, bk, calls, notified, events, gauges, metrics) ==
    [path |-> path, raised |-> raised, ret |-> ret, stateFile |-> sf, cidrFile |-> cf,
     backups |-> bk, calls |-> calls, notified |-> notified, events |-> events,
     gauges |-> gauges, metrics |-> metrics]

ErrorTitle == "Atlassian IP Update Error"
UpdatedTitle == "Atlassian IP Whitelist Updated"
IpCountMetric == "atlassian.ip_updater.ip_count"
ReloadMetric == "atlassian.ip_updater.postfix_reload_success"

\* The two gauges update_ips and send_health_metrics send.
TwoGauges(ip_count, reload_success) ==
    <<Gauge(IpCountMetric, ip_count), Gauge(ReloadMetric, reload_success)>>

TwoMetricPosts(key, dd, ip_count, reload_success) ==
    send_datadog_metric(key, dd, IpCountMetric, ip_count)
    \o send_datadog_metric(key, dd, ReloadMetric, reload_success)

\* The no-update branch reloading postfix again and reporting the result.
on_no_update_retries_reload(state, sf, cf, bk, key, e) ==
    LET ip_count == get(state, "ip_count", 0)
        r == reload_postfix(e.mta)
        v == IF r.ret THEN 1 ELSE 0
    IN  Outcome("no_update", FALSE, r.ret, sf, cf, bk, r.calls, <<>>, <<>>,
                TwoGauges(ip_count, v), TwoMetricPosts(key, e.dd, ip_count, v))

\* The branch taken when fetch_atlassian_data returns None.
on_no_update(state, sf, cf, bk, key, e) ==
    LET ip_count == get(state, "ip_count", 0)
    IN  Outcome("no_update", FALSE, TRUE, sf, cf, bk, <<>>, <<>>, <<>>,
                TwoGauges(ip_count, 1), TwoMetricPosts(key, e.dd, ip_count, 1))

\* The empty-list branch writing the (empty) list before giving up.
on_no_ips_truncates(sf, cf, bk, t, key, e) ==
    LET w == update_cidr_file(cf, bk, <<>>, t, e.wr)
    IN  Outcome("no_ips", FALSE, FALSE, sf, w.cidrFile, w.backups, <<>>,
                <<Event(ErrorTitle, "error")>>,
                send_datadog_event(key, e.dd, ErrorTitle, "error"), <<>>, <<>>)

\* The branch taken when extract_email_ips returns an empty list.
on_no_ips(sf, cf, bk, t, key, e) ==
    Outcome("no_ips", FALSE, FALSE, sf, cf, bk, <<>>,
            <<Event(ErrorTitle, "error")>>,
            send_datadog_event(key, e.dd, ErrorTitle, "error"), <<>>, <<>>)

\* The failed-write branch reloading postfix all the same.
on_write_failed_reloads(sf, w, key, e) ==
    Outcome("write_failed", FALSE, FALSE, sf, w.cidrFile, w.backups, reload_postfix(e.mta).calls,
            <<Event(ErrorTitle, "error")>>,
            send_datadog_event(key, e.dd, ErrorTitle, "error"), <<>>, <<>>)

\* The branch taken when update_cidr_file returns False.
on_write_failed(sf, w, key, e) ==
    Outcome("write_failed", FALSE, FALSE, sf, w.cidrFile, w.backups, <<>>,
            <<Event(ErrorTitle, "error")>>,
            send_datadog_event(key, e.dd, ErrorTitle, "error"), <<>>, <<>>)

\* The new state record: the loaded one with the three keys assigned.
new_state(state, content_hash, t, ip_count) ==
    put(put(put(state, "content_hash", content_hash), "last_update", t), "ip_count", ip_count)

\* The last part of update_ips with a failed POST of the event turning the
\* result into False.
Finish_post_failure_fails(postfix_success, calls, sf1, w, key, e, ip_count) ==
    LET delivered == ~key \/ e.dd = "ok"
        alert_type == IF postfix_success THEN "success" ELSE "warning"
        reload_success == IF postfix_success THEN 1 ELSE 0
    IN  Outcome("updated", FALSE, postfix_success /\ delivered, sf1, w.cidrFile, w.backups, calls,
                <<Event(UpdatedTitle, alert_type)>>,
                send_datadog_event(key, e.dd, UpdatedTitle, alert_type),
                TwoGauges(ip_count, reload_success),
                TwoMetricPosts(key, e.dd, ip_count, reload_success))

\* The rest of update_ips once the whitelist is written: reload, save the
\* state, notify, send the gauges, return the reload's result.
Finish(postfix_success, calls, sf1, w, key, e, ip_count) ==
    LET alert_type == IF postfix_success THEN "success" ELSE "warning"
        reload_success == IF postfix_success THEN 1 ELSE 0
    IN  Outcome("updated", FALSE, postfix_success, sf1, w.cidrFile, w.backups, calls,
                <<Event(UpdatedTitle, alert_type)>>,
                send_datadog_event(key, e.dd, UpdatedTitle, alert_type),
                TwoGauges(ip_count, reload_success),
                TwoMetricPosts(key, e.dd, ip_count, reload_success))

\* The last part of update_ips saving the state only after a successful reload.
on_updated_saves_after_reload_only(state, data, email_ips, sf, w, key, t, e) ==
    LET r == reload_postfix(e.mta)
        sf1 == IF r.ret
               THEN save_state(sf, new_state(state, data._content_hash, t, Len(email_ips)), e.sv)
               ELSE sf
    IN  Finish(r.ret, r.calls, sf1, w, key, e, Len(email_ips))

\* The last part of update_ips storing the number of feed entries as ip_count.
on_updated_counts_items(state, data, email_ips, sf, w, key, t, e) ==
    LET r == reload_postfix(e.mta)
        sf1 == save_state(sf, new_state(state, data._content_hash, t, Len(data.items)), e.sv)
    IN  Finish(r.ret, r.calls, sf1, w, key, e, Len(email_ips))

\* The last part of update_ips, once update_cidr_file has returned True.
on_updated(state, data, email_ips, sf, w, key, t, e) ==
    LET r == reload_postfix(e.mta)
        sf1 == save_state(sf, new_state(state, data._content_hash, t, Len(email_ips)), e.sv)
    IN  Finish(r.ret, r.calls, sf1, w, key, e, Len(email_ips))

\* update_ips at time t, on the files sf, cf, bk, with or without an API key.
update_ips(sf, cf, bk, t, key, e) ==
    LET state == load_state(sf)
        last_hash == get(state, "content_hash", NoHash)
        data == fetch_atlassian_data(last_hash, e.resp)
    IN
    IF data.none THEN on_no_update(state, sf, cf, bk, key, e)
    ELSE IF extract_raises(data)
    THEN Outcome("raised", TRUE, FALSE, sf, cf, bk, <<>>, <<>>, <<>>, <<>>, <<>>)
    ELSE
    LET email_ips == extract_email_ips(data)
    IN
    IF email_ips = <<>> THEN on_no_ips(sf, cf, bk, t, key, e)
    ELSE
    LET w == update_cidr_file(cf, bk, email_ips, t, e.wr)
    IN
    IF ~w.ret THEN on_write_failed(sf, w, key, e)
    ELSE on_updated(state, data, email_ips, sf, w, key, t, e)

\* The environments of one call that differ in something the call meets:
\* a step the call does not reach is given its first outcome.
MtaUp == Mta("zero", "zero", "zero")

MtaScenarios ==
    {Mta("raises", "zero", "zero"), Mta("nonzero", "raises", "zero"),
     Mta("nonzero", "nonzero", "zero")}
    \cup {Mta("zero", "zero", r) : r \in RunOutcomes}
    \cup {Mta("nonzero", "zero", r) : r \in RunOutcomes}

Posts(key) == IF key THEN PostOutcomes ELSE {"ok"}

EnvsOf(sf, cf, key, resp) ==
    LET data == fetch_atlassian_data(get(load_state(sf), "content_hash", NoHash), resp)
    IN  IF data.none THEN {Env(resp, "ok", MtaUp, "ok", dd) : dd \in Posts(key)}
        ELSE IF extract_raises(data) THEN {Env(resp, "ok", MtaUp, "ok", "ok")}
        ELSE IF extract_email_ips(data) = <<>>
        THEN {Env(resp, "ok", MtaUp, "ok", dd) : dd \in Posts(key)}
        ELSE {Env(resp, wr, MtaUp, "ok", dd) :
                  wr \in WriteOutcomes(cf) \ {"ok"}, dd \in Posts(key)}
             \cup {Env(resp, "ok", mta, sv, dd) :
                  mta \in MtaScenarios, sv \in SaveOutcomes, dd \in Posts(key)}

Envs(sf, cf, key) == UNION {EnvsOf(sf, cf, key, resp) : resp \in Responses}

-----------------------------------------------------------------------------
\* send_health_metrics and should_send_metrics

send_health_metrics(sf, key, lmt, t) ==
    IF ~key THEN [sent |-> FALSE, gauges |-> <<>>, last_metric_time |-> lmt]
    ELSE LET state == load_state(sf)
             ip_count == get(state, "ip_count", 0)
         IN  [sent |-> TRUE, gauges |-> TwoGauges(ip_count, 1), last_metric_time |-> t]

should_send_metrics(t, lmt, metric_interval) == (t - lmt) >= metric_interval

-----------------------------------------------------------------------------
\* run

\* The observation of one update_ips call: when it ran, the environment it
\* met, what the files were before it, and its outcome.
Observed(t, e, sf, cf, bk, out) ==
    [ran |-> TRUE, t |-> t, env |-> e,
     last_hash |-> get(load_state(sf), "content_hash", NoHash),
     fetched |-> FetchClass(get(load_state(sf), "content_hash", NoHash), e.resp),
     prior_exists |-> cf.exists,
     prior_lines |-> cf.lines,
     backup_existed |-> \E b \in bk : b.ts = t,
     out |-> out]

NoCycle ==
    [ran |-> FALSE, t |-> 0, env |-> Env(Response("timeout", BodyNotJson), "ok", MtaUp, "ok", "ok"),
     last_hash |-> NoHash, fetched |-> "error", prior_exists |-> FALSE, prior_lines |-> <<>>,
     backup_existed |-> FALSE,
     out |-> Outcome("none", FALSE, FALSE, AbsentState, AbsentCidr, {}, <<>>, <<>>, <<>>, <<>>, <<>>)]

-----------------------------------------------------------------------------
\* The health-check server (src/postfix/health_check.py).

\* The number of lines of postqueue's output from which the queue is unhealthy.
QueueThreshold == 50

\* What subprocess.run(['postqueue', '-p']) gives: an exception, a non-zero
\* exit, or exit code 0 with an output: whether it contains 'Mail queue is
\* empty', and the number of lines of the stripped output.
Postqueue(run, empty_msg, lines) == [run |-> run, empty_msg |-> empty_msg, lines |-> lines]

QueueLineCounts == {0, 1, QueueThreshold - 1, QueueThreshold, QueueThreshold + 1}

PostqueueOutcomes ==
    {Postqueue("raises", FALSE, 0), Postqueue("nonzero", FALSE, 0)}
    \cup {Postqueue("zero", m, n) : m \in BOOLEAN, n \in QueueLineCounts \ {0}}
    \cup {Postqueue("zero", FALSE, 0)}

\* What the three commands of one request do.
Cli(status, postqueue, check) == [status |-> status, postqueue |-> postqueue, check |-> check]

Clis == {Cli(s, q, c) : s \in RunOutcomes, q \in PostqueueOutcomes, c \in RunOutcomes}

HealthData(raised, postfix_running, queue_healthy, config_valid) ==
    [raised |-> raised,
     healthy |-> postfix_running /\ queue_healthy /\ config_valid,
     postfix_running |-> postfix_running,
     queue_healthy |-> queue_healthy,
     config_valid |-> config_valid]

\* get_health_status with the three commands run outside any try block.
get_health_status_unguarded(cli) ==
    HealthData("raises" \in {cli.status, cli.postqueue.run, cli.check},
               cli.status = "zero",
               /\ cli.postqueue.run = "zero"
               /\ (cli.postqueue.empty_msg \/ cli.postqueue.lines < QueueThreshold),
               cli.check = "zero")

\* Each command runs in its own try block: an exception leaves the check
\* False, and get_health_status itself raises nothing.
get_health_status(cli) ==
    HealthData(FALSE,
               cli.status = "zero",
               /\ cli.postqueue.run = "zero"
               /\ (cli.postqueue.empty_msg \/ cli.postqueue.lines < QueueThreshold),
               cli.check = "zero")

HttpResponse(code, healthy, checks) == [code |-> code, healthy |-> healthy, checks |-> checks]

NoChecks == [postfix_running |-> FALSE, postfix_queue_healthy |-> FALSE, config_valid |-> FALSE]

\* The client is taken to read the response: the writes to the socket succeed.
handle_health_check(cli) ==
    LET health_data == get_health_status(cli)
    IN  IF health_data.raised THEN HttpResponse(500, FALSE, NoChecks)
        ELSE HttpResponse(IF health_data.healthy THEN 200 ELSE 503, health_data.healthy,
                          [postfix_running |-> health_data.postfix_running,
                           postfix_queue_healthy |-> health_data.queue_healthy,
                           config_valid |-> health_data.config_valid])

\* get_postfix_metrics catches the exceptions of its commands as well.
handle_status_check(cli) ==
    LET health_data == get_health_status(cli)
    IN  IF health_data.raised THEN HttpResponse(500, FALSE, NoChecks)
        ELSE HttpResponse(200, health_data.healthy,
                          [postfix_running |-> health_data.postfix_running,
                           postfix_queue_healthy |-> health_data.queue_healthy,
                           config_valid |-> health_data.config_valid])

handle_root == HttpResponse(200, FALSE, NoChecks)

Paths == {"/postfix", "/status", "/", "/other"}

do_GET(path, cli) ==
    IF path = "/postfix" THEN handle_health_check(cli)
    ELSE IF path = "/status" THEN handle_status_check(cli)
    ELSE IF path = "/" THEN handle_root
    ELSE HttpResponse(404, FALSE, NoChecks)

\* A request, and its response once it is served.
Request(path, cli) ==
    [made |-> TRUE, served |-> FALSE, path |-> path, cli |-> cli,
     response |-> HttpResponse(0, FALSE, NoChecks)]

NoRequest ==
    [made |-> FALSE, served |-> FALSE, path |-> "/",
     cli |-> Cli("zero", Postqueue("zero", FALSE, 0), "zero"),
     response |-> HttpResponse(0, FALSE, NoChecks)]

-----------------------------------------------------------------------------
\* The updater's configuration and run loop, continued.

\* IP_CHECK_INTERVAL and METRIC_REPORT_INTERVAL, in seconds.
Intervals == {<<0, SleepSeconds>>, <<2 * SleepSeconds, SleepSeconds>>,
              <<2 * SleepSeconds, 3 * SleepSeconds>>}

Config(check_interval, metric_interval, datadog_api_key) ==
    [check_interval |-> check_interval, metric_interval |-> metric_interval,
     datadog_api_key |-> datadog_api_key]

\* The result of an extract_email_ips call: whether it raised, and the list.
Extracted(raised, ips) == [done |-> TRUE, raised |-> raised, ips |-> ips]
NotExtracted == [done |-> FALSE, raised |-> FALSE, ips |-> <<>>]

Init ==
    /\ pc = "start"
    /\ now = StartTime
    /\ cfg \in {Config(i[1], i[2], k) : i \in Intervals, k \in BOOLEAN}
    /\ last_ip_check = 0
    /\ last_metric_time = 0
    /\ stateFile = AbsentState
    /\ cidrFile \in {AbsentCidr, InstalledCidr}
    /\ backups = {}
    /\ op = "init"
    /\ cycle = NoCycle
    /\ doc = <<>>
    /\ extracted = NotExtracted
    /\ last_reload = "none"
    /\ health = NoRequest

\* The files after an update_ips call, and its observation.
Updated(e, out) ==
    /\ stateFile' = out.stateFile
    /\ cidrFile' = out.cidrFile
    /\ backups' = out.backups
    /\ cycle' = Observed(now, e, stateFile, cidrFile, backups, out)
    /\ last_reload' = IF out.calls = <<>> THEN last_reload
                      ELSE IF out.ret THEN "succeeded" ELSE "failed"

\* run() up to the loop: the initial update_ips and send_health_metrics; an
\* exception of update_ips leaves run() and ends the process (__main__).
\* The 'IP Updater Started' and 'IP Updater Crashed' events change nothing
\* and are not recorded. Each call is taken to finish within the second in
\* which it starts.
Startup ==
    /\ pc = "start"
    /\ \E e \in Envs(stateFile, cidrFile, cfg.datadog_api_key) :
        \E out \in {update_ips(stateFile, cidrFile, backups, now, cfg.datadog_api_key, e)} :
        LET hm == send_health_metrics(out.stateFile, cfg.datadog_api_key, last_metric_time, now)
        IN  /\ Updated(e, out)
            /\ IF out.raised
               THEN /\ pc' = "exited"
                    /\ op' = "crashed"
                    /\ UNCHANGED <<last_ip_check, last_metric_time>>
               ELSE /\ pc' = "loop"
                    /\ op' = "startup"
                    /\ last_metric_time' = hm.last_metric_time
                    /\ last_ip_check' = now
    /\ UNCHANGED <<now, cfg, doc, extracted, health>>

\* One pass of the while loop in which the update check is due. An exception
\* is caught by the loop's except clause, which skips the sleep and the
\* assignment to last_ip_check.
TickUpdate ==
    /\ pc = "loop"
    /\ now <= MaxTime
    /\ (now - last_ip_check) >= cfg.check_interval
    /\ \E e \in Envs(stateFile, cidrFile, cfg.datadog_api_key) :
        \E out \in {update_ips(stateFile, cidrFile, backups, now, cfg.datadog_api_key, e)} :
            /\ Updated(e, out)
            /\ IF out.raised
               THEN /\ op' = "tick_raised"
                    /\ UNCHANGED <<now, last_ip_check>>
               ELSE /\ op' = "tick_update"
                    /\ last_ip_check' = now
                    /\ now' = now + SleepSeconds
    /\ UNCHANGED <<pc, cfg, last_metric_time, doc, extracted, health>>

\* One pass in which the update check is not due and the metric report is.
TickMetrics ==
    /\ pc = "loop"
    /\ now <= MaxTime
    /\ ~((now - last_ip_check) >= cfg.check_interval)
    /\ should_send_metrics(now, last_metric_time, cfg.metric_interval)
    /\ last_metric_time' =
           send_health_metrics(stateFile, cfg.datadog_api_key, last_metric_time, now).last_metric_time
    /\ op' = "tick_metrics"
    /\ now' = now + SleepSeconds
    /\ UNCHANGED <<pc, cfg, last_ip_check, stateFile, cidrFile, backups, cycle, doc, extracted,
                   last_reload, health>>

\* One pass in which neither is due.
TickIdle ==
    /\ pc = "loop"
    /\ now <= MaxTime
    /\ ~((now - last_ip_check) >= cfg.check_interval)
    /\ ~should_send_metrics(now, last_metric_time, cfg.metric_interval)
    /\ op' = "tick_idle"
    /\ now' = now + SleepSeconds
    /\ UNCHANGED <<pc, cfg, last_ip_check, last_metric_time, stateFile, cidrFile,
                   backups, cycle, doc, extracted, last_reload, health>>

Next == Startup \/ TickUpdate \/ TickMetrics \/ TickIdle

Spec == Init /\ [][Next]_vars

-----------------------------------------------------------------------------
\* extract_email_ips on every feed document of at most MaxItems entries.

Docs == UNION {[1..n -> ObjectItems \cup {ScalarItem}] : n \in 0..MaxItems}

InitExtract ==
    /\ pc = "extract"
    /\ now = StartTime
    /\ cfg = Config(0, SleepSeconds, FALSE)
    /\ last_ip_check = 0
    /\ last_metric_time = 0
    /\ stateFile = AbsentState
    /\ cidrFile = AbsentCidr
    /\ backups = {}
    /\ op = "init"
    /\ cycle = NoCycle
    /\ doc \in Docs
    /\ extracted = NotExtracted
    /\ last_reload = "none"
    /\ health = NoRequest

Extract ==
    /\ pc = "extract"
    /\ ~extracted.done
    /\ LET data == [none |-> FALSE, items |-> doc, _content_hash |-> NoHash]
       IN  extracted' = IF extract_raises(data) THEN Extracted(TRUE, <<>>)
                        ELSE Extracted(FALSE, extract_email_ips(data))
    /\ op' = "extract"
    /\ UNCHANGED <<pc, now, cfg, last_ip_check, last_metric_time, stateFile, cidrFile,
                   backups, cycle, doc, last_reload, health>>

NextExtract == Extract

SpecExtract == InitExtract /\ [][NextExtract]_vars

-----------------------------------------------------------------------------
\* The run loop without an end, for what it eventually does. Time is counted
\* from the current pass: instead of the clock advancing by the sleep, the two
\* stored times recede by it, which leaves (current_time - last_ip_check) and
\* (current_time - self.last_metric_time) what they are in the code. An age
\* above MaxAge is kept at MaxAge. The timestamps written into the files are
\* those of the pass.

\* The environments of the calls of SpecLive: every answer of the feed, a
\* whitelist that can be written, an MTA that is up and reloads or not, a
\* state file and a backend that work.
EnvsLive(sf, cf, key) ==
    {e \in Envs(sf, cf, key) :
        /\ e.wr = "ok"
        /\ e.mta \in {MtaUp, Mta("zero", "zero", "nonzero")}
        /\ e.sv = "ok"
        /\ e.dd = "ok"}

\* The calls before the loop, as in Startup.
StartupLive ==
    /\ pc = "start"
    /\ \E e \in EnvsLive(stateFile, cidrFile, cfg.datadog_api_key) :
        \E out \in {update_ips(stateFile, cidrFile, backups, now, cfg.datadog_api_key, e)} :
        LET hm == send_health_metrics(out.stateFile, cfg.datadog_api_key, last_metric_time, now)
        IN  /\ Updated(e, out)
            /\ IF out.raised
               THEN /\ pc' = "exited"
                    /\ op' = "crashed"
                    /\ UNCHANGED <<last_ip_check, last_metric_time>>
               ELSE /\ pc' = "loop"
                    /\ op' = "startup"
                    /\ last_metric_time' = hm.last_metric_time
                    /\ last_ip_check' = now
    /\ UNCHANGED <<now, cfg, doc, extracted, health>>

Recede(t) == IF now - (t - SleepSeconds) > MaxAge THEN now - MaxAge ELSE t - SleepSeconds

PassUpdate ==
    /\ pc = "loop"
    /\ (now - last_ip_check) >= cfg.check_interval
    /\ \E e \in EnvsLive(stateFile, cidrFile, cfg.datadog_api_key) :
        \E out \in {update_ips(stateFile, cidrFile, backups, now, cfg.datadog_api_key, e)} :
            /\ Updated(e, out)
            /\ IF out.raised
               THEN /\ op' = "tick_raised"
                    /\ UNCHANGED <<last_ip_check, last_metric_time>>
               ELSE /\ op' = "tick_update"
                    /\ last_ip_check' = Recede(now)
                    /\ last_metric_time' = Recede(last_metric_time)
    /\ UNCHANGED <<pc, now, cfg, doc, extracted, health>>

PassMetrics ==
    /\ pc = "loop"
    /\ ~((now - last_ip_check) >= cfg.check_interval)
    /\ should_send_metrics(now, last_metric_time, cfg.metric_interval)
    /\ last_metric_time' =
           Recede(send_health_metrics(stateFile, cfg.datadog_api_key, last_metric_time, now).last_metric_time)
    /\ last_ip_check' = Recede(last_ip_check)
    /\ op' = "tick_metrics"
    /\ UNCHANGED <<pc, now, cfg, stateFile, cidrFile, backups, cycle, doc, extracted,
                   last_reload, health>>

PassIdle ==
    /\ pc = "loop"
    /\ ~((now - last_ip_check) >= cfg.check_interval)
    /\ ~should_send_metrics(now, last_metric_time, cfg.metric_interval)
    /\ last_metric_time' = Recede(last_metric_time)
    /\ last_ip_check' = Recede(last_ip_check)
    /\ op' = "tick_idle"
    /\ UNCHANGED <<pc, now, cfg, stateFile, cidrFile, backups, cycle, doc, extracted,
                   last_reload, health>>

NextLive == StartupLive \/ PassUpdate \/ PassMetrics \/ PassIdle

\* Every pass ends: the HTTP calls and the subprocesses have timeouts and the
\* sleep is 30 seconds, so the loop takes pass after pass.
SpecLive == Init /\ [][NextLive]_vars /\ WF_vars(NextLive)

-----------------------------------------------------------------------------
\* One request to the health-check server, for every path and every behaviour
\* of the three commands.

InitHealth ==
    /\ pc = "serving"
    /\ now = StartTime
    /\ cfg = Config(0, SleepSeconds, FALSE)
    /\ last_ip_check = 0
    /\ last_metric_time = 0
    /\ stateFile = AbsentState
    /\ cidrFile = AbsentCidr
    /\ backups = {}
    /\ op = "init"
    /\ cycle = NoCycle
    /\ doc = <<>>
    /\ extracted = NotExtracted
    /\ last_reload = "none"
    /\ health \in {Request(p, c) : p \in Paths, c \in Clis}

Serve ==
    /\ pc = "serving"
    /\ health.made
    /\ ~health.served
    /\ health' = [health EXCEPT !.served = TRUE, !.response = do_GET(health.path, health.cli)]
    /\ op' = "do_GET"
    /\ UNCHANGED <<pc, now, cfg, last_ip_check, last_metric_time, stateFile, cidrFile,
                   backups, cycle, doc, extracted, last_reload>>

NextHealth == Serve

SpecHealth == InitHealth /\ [][NextHealth]_vars

-----------------------------------------------------------------------------
\* Properties of update_ips. A step of run() that calls update_ips sets op to
\* one of UpdateOps and cycle to the observation of that call.

UpdateOps == {"startup", "crashed", "tick_update", "tick_raised"}

UpdateStep == op' \in UpdateOps

\* The persisted hash and count, when the state file is a JSON object.
PersistedHash == get(load_state(stateFile), "content_hash", NoHash)
PersistedCount == get(load_state(stateFile), "ip_count", 0)

\* The list extract_email_ips gives for the body the last call fetched.
FetchedIps == extract_email_ips([items |-> cycle.env.resp.body.items])

\* The last call fetched a changed feed whose entries are all objects.
FetchedChanged ==
    /\ cycle.ran
    /\ cycle.fetched = "changed"
    /\ \A i \in 1..Len(cycle.env.resp.body.items) : cycle.env.resp.body.items[i].shape = "object"

\* The last call wrote the whitelist successfully.
WroteWhitelist == FetchedChanged /\ FetchedIps # <<>> /\ cycle.env.wr = "ok"

\* C1: a call of update_ips that fetches a body whose hash equals the
\* persisted hash changes none of the whitelist file, the backup files and
\* the state file, and runs no postfix subcommand.
C1_UnchangedFeedTouchesNothing ==
    [][(UpdateStep /\ PersistedHash # NoHash /\ cycle'.env.resp.kind = "ok"
            /\ md5(cycle'.env.resp.body.text) = PersistedHash)
        => (/\ stateFile' = stateFile
            /\ cidrFile' = cidrFile
            /\ backups' = backups
            /\ cycle'.out.calls = <<>>)]_vars

C1_Witness ==
    /\ cycle.ran
    /\ cycle.fetched = "no change"
    /\ cycle.out.path = "no_update"
    /\ cidrFile.exists

C3_EmptyExtractionLeavesWhitelist ==
    (FetchedChanged /\ FetchedIps = <<>>)
    => (/\ cidrFile = CidrFile(cycle.prior_exists, cycle.prior_lines)
        /\ cycle.out.cidrFile = cidrFile
        /\ cycle.out.notified = <<Event(ErrorTitle, "error")>>
        /\ cfg.datadog_api_key
           => (Len(cycle.out.events) = 1 /\ cycle.out.events[1].alert_type = "error")
        /\ ~cycle.out.ret)

C3_Witness ==
    /\ FetchedChanged
    /\ FetchedIps = <<>>
    /\ cycle.prior_exists
    /\ Len(cycle.prior_lines) > 1
    /\ cfg.datadog_api_key

\* C4: when update_cidr_file fails, the call runs no postfix subcommand,
\* leaves the state file as it was, hands an error event to the notifier and
\* returns False.
C4_WriteFailureAborts ==
    [][(UpdateStep /\ FetchedChanged' /\ FetchedIps' # <<>> /\ cycle'.env.wr # "ok")
        => (/\ cycle'.out.calls = <<>>
            /\ stateFile' = stateFile
            /\ cycle'.out.notified = <<Event(ErrorTitle, "error")>>
            /\ cfg.datadog_api_key
               => (Len(cycle'.out.events) = 1 /\ cycle'.out.events[1].alert_type = "error")
            /\ ~cycle'.out.ret)]_vars

C4_Witness ==
    /\ FetchedChanged
    /\ FetchedIps # <<>>
    /\ cycle.env.wr = "write_fails"
    /\ stateFile.status = "ok"
    /\ cidrFile = CidrFile(TRUE, <<>>)

\* The postfix subcommands the last call ran, as a set.
Ran == {cycle.out.calls[i] : i \in 1..Len(cycle.out.calls)}

\* C5 as stated: reload_postfix runs status, runs start when postfix is not
\* running, then runs reload whatever start gave, and returns whether reload
\* exited with 0 (stated for the runs in which every subcommand exits).
C5_ReloadUnconditional ==
    (/\ WroteWhitelist
     /\ "raises" \notin {cycle.env.mta.status, cycle.env.mta.start, cycle.env.mta.reload})
    => (/\ "status" \in Ran
        /\ cycle.env.mta.status = "nonzero" => "start" \in Ran
        /\ "reload" \in Ran
        /\ cycle.out.ret = (cycle.env.mta.reload = "zero"))

\* C5, amended: reload_postfix runs status; when status exits non-zero it
\* runs start; it runs reload unless status raised or start exited non-zero
\* or raised, and then it returns False without reloading; when reload is run
\* the result is whether reload exited with 0.
C5_ReloadUnlessStartFails ==
    WroteWhitelist
    => LET m == cycle.env.mta
           started == m.status = "nonzero"
           reloads == m.status = "zero" \/ (m.status = "nonzero" /\ m.start = "zero")
       IN  /\ cycle.out.calls = <<"status">>
                \o (IF started THEN <<"start">> ELSE <<>>)
                \o (IF reloads THEN <<"reload">> ELSE <<>>)
           /\ cycle.out.ret = (reloads /\ m.reload = "zero")

C5_Witness ==
    /\ WroteWhitelist
    /\ cycle.env.mta.status = "nonzero"
    /\ cycle.env.mta.start = "nonzero"
    /\ cycle.out.calls = <<"status", "start">>
    /\ ~cycle.out.ret

\* C6 as stated: the value fetch_atlassian_data returns for an unchanged body
\* differs from the value it returns for a failed fetch.
C6_NoChangeDistinctFromError ==
    (cycle.ran /\ cycle.fetched = "no change")
    => \A r \in Responses :
           FetchClass(cycle.last_hash, r) = "error"
           => fetch_atlassian_data(cycle.last_hash, r)
                  # fetch_atlassian_data(cycle.last_hash, cycle.env.resp)

\* C7 as stated: no error of a reconciliation, the one at startup included,
\* ends the process.
C7_NeverExits == pc # "exited"

\* C8 as stated: a successful write over an existing whitelist file makes one
\* new backup file, holding the prior content.
C8_OneNewBackupPerWrite ==
    [][(UpdateStep /\ WroteWhitelist' /\ cidrFile.exists)
        => (/\ Cardinality(backups') = Cardinality(backups) + 1
            /\ Backup(now, cidrFile.lines) \in backups')]_vars

\* C8, amended: a successful write over an existing whitelist file leaves,
\* under the timestamp of the write, a backup holding the prior content, and
\* leaves every backup of another timestamp as it was; the backup is a new
\* file unless one of the same timestamp exists, which is then overwritten.
C8_BackupHoldsPriorContent ==
    [][(UpdateStep /\ WroteWhitelist' /\ cidrFile.exists)
        => (/\ Backup(now, cidrFile.lines) \in backups'
            /\ \A b \in backups' : b.ts = now => b.lines = cidrFile.lines
            /\ \A b \in backups : b.ts # now => b \in backups'
            /\ \A b \in backups' : b.ts # now => b \in backups
            /\ Cardinality(backups') = Cardinality(backups)
                   + (IF \E b \in backups : b.ts = now THEN 0 ELSE 1))]_vars

C8_Witness ==
    /\ WroteWhitelist
    /\ cycle.prior_exists
    /\ cycle.backup_existed
    /\ Backup(cycle.t, cycle.prior_lines) \in backups
    /\ Cardinality(backups) = 1

C10_ExtractFiltersAndSorts ==
    (extracted.done /\ \A i \in 1..Len(doc) : doc[i].shape = "object")
    => LET wanted(c) == {i \in 1..Len(doc) :
                              /\ "email" \in doc[i].product
                              /\ "egress" \in doc[i].direction
                              /\ doc[i].cidr = c}
           got(c) == {j \in 1..Len(extracted.ips) : extracted.ips[j] = c}
       IN  /\ ~extracted.raised
           /\ \A j \in 1..Len(extracted.ips) : extracted.ips[j] \in 1..MaxCidr
           /\ \A c \in 1..MaxCidr : Cardinality(got(c)) = Cardinality(wanted(c))
           /\ \A j \in 1..(Len(extracted.ips) - 1) : extracted.ips[j] <= extracted.ips[j + 1]

C10_Witness ==
    /\ extracted.done
    /\ Len(doc) = 2
    /\ doc[1] = Item({"email"}, {"egress"}, 2)
    /\ doc[2] = Item({"email", "jira"}, {"egress", "ingress"}, 1)
    /\ extracted.ips = <<1, 2>>

\* C11: whether the POSTs to the monitoring backend succeed or fail changes
\* nothing of what a call of update_ips does: for the call just made and
\* the same call with the other POST outcome, the return value, the state
\* file, the whitelist file, the backups and the postfix subcommands run are
\* the same.
C11_PostOutcomeChangesNothing ==
    [][UpdateStep
        => \A dd \in PostOutcomes :
               LET o == update_ips(stateFile, cidrFile, backups, now, cfg.datadog_api_key,
                                   [cycle'.env EXCEPT !.dd = dd])
               IN  /\ o.raised = cycle'.out.raised
                   /\ o.ret = cycle'.out.ret
                   /\ o.stateFile = stateFile'
                   /\ o.cidrFile = cidrFile'
                   /\ o.backups = backups'
                   /\ o.calls = cycle'.out.calls
                   /\ o.notified = cycle'.out.notified
                   /\ o.gauges = cycle'.out.gauges]_vars

C11_Witness ==
    /\ cycle.ran
    /\ cfg.datadog_api_key
    /\ cycle.env.dd = "fails"
    /\ cycle.out.path = "updated"
    /\ cycle.out.ret
    /\ Len(cycle.out.events) = 1
    /\ ~cycle.out.events[1].delivered
    /\ Len(cycle.out.metrics) = 2
    /\ ~cycle.out.metrics[1].delivered
    /\ PersistedHash = md5(cycle.env.resp.body.text)

\* C13: the answer to GET /postfix is 200 when the three checks pass and
\* 503 otherwise, a check passing only when its command exits with 0 (and,
\* for the queue, the output is short or says the queue is empty): a command
\* that raises (absent, timed out) or exits non-zero fails its check and the
\* answer is 503, never 500.
C13_HealthRouteIs200Or503 ==
    (health.served /\ health.path = "/postfix")
    => LET c == health.cli
           running == c.status = "zero"
           queue == /\ c.postqueue.run = "zero"
                    /\ (c.postqueue.empty_msg \/ c.postqueue.lines < QueueThreshold)
           valid == c.check = "zero"
           r == health.response
       IN  /\ r.code \in {200, 503}
           /\ r.code = 200 <=> (running /\ queue /\ valid)
           /\ r.healthy = (r.code = 200)
           /\ r.checks.postfix_running = running
           /\ r.checks.postfix_queue_healthy = queue
           /\ r.checks.config_valid = valid

C13_Witness ==
    /\ health.served
    /\ health.path = "/postfix"
    /\ health.cli.status = "zero"
    /\ health.cli.postqueue.run = "raises"
    /\ health.cli.check = "zero"
    /\ health.response.code = 503
    /\ health.response.checks.postfix_running
    /\ ~health.response.checks.postfix_queue_healthy

\* C14: when the state file holds a content hash, a call of update_ips whose
\* fetch gives the same body, or fails, runs no postfix subcommand, reports
\* postfix_reload_success = 1 and returns True, whatever the most recent
\* reload_postfix call returned: the result of that call stays the most
\* recent one, a failed reload is not tried again.
C14_NoUpdateNeverRetriesReload ==
    [][(/\ UpdateStep
        /\ PersistedHash # NoHash
        /\ FetchClass(PersistedHash, cycle'.env.resp) \in {"no change", "error"})
       => /\ cycle'.out.calls = <<>>
          /\ cycle'.out.gauges = TwoGauges(PersistedCount, 1)
          /\ cycle'.out.ret
          /\ ~cycle'.out.raised
          /\ last_reload' = last_reload]_vars

C14_Witness ==
    /\ op = "tick_update"
    /\ last_reload = "failed"
    /\ cycle.last_hash # NoHash
    /\ cycle.fetched = "no change"
    /\ cycle.out.calls = <<>>
    /\ cycle.out.gauges[2] = Gauge(ReloadMetric, 1)
    /\ cycle.out.ret

\* The loop is running and METRIC_REPORT_INTERVAL seconds have passed since
\* last_metric_time.
MetricsDue == pc = "loop" /\ should_send_metrics(now, last_metric_time, cfg.metric_interval)

\* C12: for every IP_CHECK_INTERVAL and METRIC_REPORT_INTERVAL, once the
\* metric interval has elapsed the loop eventually calls send_health_metrics,
\* whatever the update checks do.
C12_MetricsEventuallyEmitted == [](MetricsDue => <>(op = "tick_metrics"))

====
